---- MODULE Spec2Model ----
(***************************************************************************)
(* Model of the EatFast backend core: the cache-backed rate limiter        *)
(* (backend/utils.py, check_rate_limit) and the partner-application        *)
(* lifecycle (backend/models.py, backend/views.py, backend/serializers.py).*)
(***************************************************************************)
EXTENDS Integers, Sequences, FiniteSets, TLC

(***************************************************************************)
(* Bounds of the model.                                                    *)
(***************************************************************************)
\* number of concurrent check_rate_limit calls in the concurrent specification
NumCalls == 4
\* the clock of the rate limiter advances in steps of this many hours
TickHours == 8

(***************************************************************************)
(* Rate limiter: inputs and call-site constants.                           *)
(***************************************************************************)
Identifiers == {"ip1", "ip2"}
RateActions == {"contact_form", "partner_application"}

SecondsPerHour == 3600

\* max_requests / window_hours as passed by the two create views
max_requests(action) == IF action = "contact_form" THEN 5 ELSE 3
window_hours(action) == IF action = "contact_form" THEN 1 ELSE 24

\* cache_key = f"rate_limit:{action}:{identifier}"
cache_key_without_action(action, identifier) == "rate_limit:" \o identifier

cache_key(action, identifier) == "rate_limit:" \o action \o ":" \o identifier

CacheKeys == {cache_key(a, i) : a \in RateActions, i \in Identifiers}
KeyAction(k) == CHOOSE a \in RateActions : \E i \in Identifiers : cache_key(a, i) = k

VARIABLES
    backend,   \* the configured cache backend: "locmem", "redis" or "dummy"
    cache,     \* the shared counter store: key -> [value, ttl (seconds left)]
    ret,       \* what the last sequential check_rate_limit call returned:
               \* "True" or "False" ("none" before the first call)
    watch,     \* the key whose call history the observer records
    obs,       \* observer's record of the calls made for the watched key
    calls      \* concurrent check_rate_limit calls in flight

rlVars == <<backend, cache, ret, watch, obs, calls>>

(***************************************************************************)
(* Partner applications: the stored rows, the clock that timezone.now()    *)
(* reads, the last response of the API, the reviewers' requests in flight  *)
(* (concurrent specification), the stored contact messages and the emails  *)
(* the last request tried to send.                                         *)
(***************************************************************************)
VARIABLES
    apps,      \* PartnerApplication rows: id -> row
    now,       \* the value the next timezone.now() returns
    resp,      \* the response of the last request handled
    rv,        \* per reviewer: the approve / reject request in flight
    contacts,  \* ContactMessage rows, in order of creation
    mail       \* the send_* calls of the last request handled:
               \* a set of [kind, app, outcome]

appVars == <<apps, now, resp, rv, contacts, mail>>
vars == <<rlVars, appVars>>

(***************************************************************************)
(* The cache (django.core.cache): get with default, set with timeout, and  *)
(* expiry of entries as time passes.                                       *)
(***************************************************************************)
cache_get(c, key, default) ==
    IF key \in DOMAIN c THEN c[key].value ELSE default

cache_set(c, key, value, timeout) ==
    IF backend = "dummy"
    THEN c
    ELSE [x \in (DOMAIN c) \cup {key} |->
             IF x = key THEN [value |-> value, ttl |-> timeout] ELSE c[x]]

\* the entries that are still alive after `seconds` have passed
cache_expire(c, seconds) ==
    [x \in {y \in DOMAIN c : c[y].ttl - seconds > 0} |->
        [value |-> c[x].value, ttl |-> c[x].ttl - seconds]]

(***************************************************************************)
(* check_rate_limit: the comparison and the write (lines 29-34), and the   *)
(* whole function (lines 24-34).                                           *)
(***************************************************************************)
check_rate_limit_deny_refreshes(c, key, current_requests, maxreq, hours) ==
    IF current_requests >= maxreq
    THEN [ret |-> FALSE,
          cache |-> IF key \in DOMAIN c
                    THEN cache_set(c, key, current_requests, hours * SecondsPerHour)
                    ELSE c]
    ELSE [ret |-> TRUE,
          cache |-> cache_set(c, key, current_requests + 1, hours * SecondsPerHour)]

check_rate_limit_off_by_one(c, key, current_requests, maxreq, hours) ==
    IF current_requests > maxreq
    THEN [ret |-> FALSE, cache |-> c]
    ELSE [ret |-> TRUE,
          cache |-> cache_set(c, key, current_requests + 1, hours * SecondsPerHour)]

check_rate_limit_fixed_window(c, key, current_requests, maxreq, hours) ==
    IF current_requests >= maxreq
    THEN [ret |-> FALSE, cache |-> c]
    ELSE [ret |-> TRUE,
          cache |-> IF key \in DOMAIN c
                    THEN [c EXCEPT ![key].value = current_requests + 1]
                    ELSE cache_set(c, key, current_requests + 1,
                                   hours * SecondsPerHour)]

check_rate_limit_write(c, key, current_requests, maxreq, hours) ==
    IF current_requests >= maxreq
    THEN [ret |-> FALSE, cache |-> c]
    ELSE [ret |-> TRUE,
          cache |-> cache_set(c, key, current_requests + 1, hours * SecondsPerHour)]

check_rate_limit_default_one(c, identifier, action, maxreq, hours) ==
    LET key == cache_key(action, identifier)
        current_requests == cache_get(c, key, 1)
    IN  check_rate_limit_write(c, key, current_requests, maxreq, hours)

check_rate_limit(c, identifier, action, maxreq, hours) ==
    LET key == cache_key(action, identifier)
        current_requests == cache_get(c, key, 0)
    IN  check_rate_limit_write(c, key, current_requests, maxreq, hours)

(***************************************************************************)
(* Observer of the watched key.                                            *)
(*   n        index of the last call among the calls made since the        *)
(*            counter was last absent (saturating)                         *)
(*   last     outcome of the last call: "none", "allow" or "deny"          *)
(*   denyAge  seconds since the earliest denial that no admitted call has  *)
(*            followed (-1: none), saturating at the window                *)
(*   everAge  seconds since the earliest denial ever (-1: none), saturating*)
(*   dueSince the last call came a full window after a denial that no      *)
(*            admitted call had followed                                   *)
(*   dueEver  the last call came a full window after some denial           *)
(*   sinceAdmit  seconds since the last admitted call (-1: none),          *)
(*            saturating at the window                                     *)
(*   sinceFirst  seconds since the admitted call that last created the     *)
(*            counter, i.e. began a window (-1: none), saturating          *)
(*   dueAdmit whether the last call came a full window after the last      *)
(*            admitted call: "no", "yes", or "after_denials" when calls    *)
(*            were denied in between, the first of them less than a        *)
(*            window before the call                                       *)
(*   chain    number of admitted calls in the current run of admitted      *)
(*            calls that follow each other less than a window apart        *)
(*            (0 once a full window has passed since the last of them)     *)
(***************************************************************************)
Min(a, b) == IF a < b THEN a ELSE b
WindowSeconds(action) == window_hours(action) * SecondsPerHour

ObsInit == [n |-> 0, last |-> "none", denyAge |-> -1, everAge |-> -1,
            dueSince |-> FALSE, dueEver |-> FALSE,
            sinceAdmit |-> -1, sinceFirst |-> -1, dueAdmit |-> "no",
            chain |-> 0]

ObsCall(o, key, wasPresent, allowed) ==
    LET a == KeyAction(key)
        w == WindowSeconds(a)
    IN  [n        |-> IF wasPresent THEN Min(o.n + 1, max_requests(a) + 2) ELSE 1,
         last     |-> IF allowed THEN "allow" ELSE "deny",
         denyAge  |-> IF allowed THEN -1
                      ELSE IF o.denyAge = -1 THEN 0 ELSE o.denyAge,
         everAge  |-> IF o.everAge = -1 /\ ~allowed THEN 0 ELSE o.everAge,
         dueSince |-> o.denyAge >= w,
         dueEver  |-> o.everAge >= w,
         sinceAdmit |-> IF allowed THEN 0 ELSE o.sinceAdmit,
         sinceFirst |-> IF allowed /\ ~wasPresent THEN 0 ELSE o.sinceFirst,
         dueAdmit |-> IF o.sinceAdmit < w THEN "no"
                      ELSE IF o.denyAge # -1 /\ o.denyAge < w
                      THEN "after_denials" ELSE "yes",
         chain    |-> IF ~allowed THEN o.chain
                      ELSE IF o.sinceAdmit # -1 /\ o.sinceAdmit < w
                      THEN Min(o.chain + 1, max_requests(a) + 2)
                      ELSE 1]

ObsTick(o, key, seconds, stillPresent) ==
    LET w == WindowSeconds(KeyAction(key))
    IN  [o EXCEPT !.n = IF stillPresent THEN @ ELSE 0,
                  !.denyAge = IF @ = -1 THEN -1 ELSE Min(@ + seconds, w),
                  !.everAge = IF @ = -1 THEN -1 ELSE Min(@ + seconds, w),
                  !.sinceAdmit = IF @ = -1 THEN -1 ELSE Min(@ + seconds, w),
                  !.sinceFirst = IF @ = -1 THEN -1 ELSE Min(@ + seconds, w),
                  !.chain = IF o.sinceAdmit # -1 /\ o.sinceAdmit + seconds < w
                            THEN @ ELSE 0]


(***************************************************************************)
(* Partner applications: values of the fields and of the request inputs.   *)
(***************************************************************************)
\* at most this many applications are created
MaxApps == 1
\* at most this many timestamped writes (values of timezone.now())
MaxClock == 2
\* at most this many contact messages are stored
MaxMessages == 6

\* APPLICATION_STATUS_CHOICES
Statuses == {"pending", "under_review", "approved", "rejected",
             "on_hold", "additional_info_required"}
\* staff users acting as reviewers (request.user)
Users == {"admin1", "admin2"}

None == "None"         \* Python None, NULL in a text or reference column
Absent == "<absent>"   \* a key the request data does not carry
NoTime == 0            \* NULL in a timestamp column

\* `not x` of Python for the values a request field can take
falsy(x) == x \in {Absent, None, ""}
\* request.data.get(key): None when the key is absent
data_get(x) == IF x = Absent THEN None ELSE x

ReasonInputs == {Absent, "", "incomplete docs"}
\* addresses submitted with an application, and addresses given to check_status
EmailInputs == {"marie@restaurant.com", "Marie@Restaurant.com"}
LookupEmails == EmailInputs \cup {"", "other@restaurant.com"}
\* status values sent to the update endpoint
UpdateStatusInputs == {Absent, "under_review", "approved", "rejected"}
\* str.lower() on the addresses above
lower(e) == IF e = "Marie@Restaurant.com" THEN "marie@restaurant.com" ELSE e
\* PartnerApplicationSerializer.validate_email: value.lower().strip()
validate_email(value) == lower(value)
\* email__iexact
iexact(stored, given) == lower(stored) = lower(given)

\* identifiers: 1, 2, ... are well-formed UUIDs (uuid4 of the n-th row);
\* InvalidId is a string that is not a UUID ("invalid-id"); MissingId is an
\* absent or empty application_id
InvalidId == 0
MissingId == -1
AppIds == 1..MaxApps
IdInputs == {MissingId, InvalidId} \cup 1..(MaxApps + 1)

\* a new row: status default 'pending', nullable columns NULL
NewApplication(email) ==
    [status |-> "pending", email |-> email, reviewer |-> None,
     rejection_reason |-> None, reviewed_at |-> NoTime, approved_at |-> NoTime]

(***************************************************************************)
(* PartnerApplicationSerializer (create view).  Of the columns modelled    *)
(* here Meta.fields lists status and email, and Meta.read_only_fields      *)
(* lists status.  A key of the request data reaches validated_data only    *)
(* when it is a field of the serializer that is not read-only;             *)
(* ModelSerializer.create builds the row from validated_data and the       *)
(* model's defaults.                                                       *)
(***************************************************************************)
serializer_fields == {"status", "email"}

read_only_fields_without_status == {}

read_only_fields == {"status"}

writable(f) == f \in serializer_fields \ read_only_fields

\* what an applicant may send besides the fields of the form: nothing, a
\* status, or a status with the review fields
SuppliedInputs ==
    {[status |-> Absent, reviewer |-> None, reviewed_at |-> NoTime,
      approved_at |-> NoTime],
     [status |-> "approved", reviewer |-> None, reviewed_at |-> NoTime,
      approved_at |-> NoTime],
     [status |-> "approved", reviewer |-> "admin1", reviewed_at |-> 1,
      approved_at |-> 1]}

serializer_create(email, data) ==
    LET row == NewApplication(validate_email(email))
    IN  [row EXCEPT
           !.status = IF writable("status") /\ data.status # Absent
                      THEN data.status ELSE @,
           !.reviewer = IF writable("reviewer") THEN data.reviewer ELSE @,
           !.reviewed_at = IF writable("reviewed_at") THEN data.reviewed_at ELSE @,
           !.approved_at = IF writable("approved_at") THEN data.approved_at ELSE @]

(***************************************************************************)
(* PartnerApplication.approve / reject and Model.save(update_fields).      *)
(***************************************************************************)
save(row, self, update_fields) ==
    [f \in DOMAIN row |-> IF f \in update_fields THEN self[f] ELSE row[f]]

approve_fields_without_approved_at == {"status", "reviewer", "reviewed_at"}

approve_fields == {"status", "reviewer", "reviewed_at", "approved_at"}
reject_fields == {"status", "reviewer", "rejection_reason", "reviewed_at"}

approve(row, self, reviewer, t) ==
    save(row, [self EXCEPT !.status = "approved", !.reviewer = reviewer,
                           !.reviewed_at = t, !.approved_at = t],
         approve_fields)

reject(row, self, reviewer, reason, t) ==
    save(row, [self EXCEPT !.status = "rejected", !.reviewer = reviewer,
                           !.rejection_reason = reason, !.reviewed_at = t],
         reject_fields)

(***************************************************************************)
(* Emails.  views.py imports two send_* functions from .utils; the views   *)
(* call four.  A view calls them as                                        *)
(*     try: send_x(obj)  except Exception as e: logger.error(...)          *)
(* so the call of a name the module does not bind raises NameError, which  *)
(* the except clause logs, and the view goes on to its success response.   *)
(* A send_* function that is called catches its own failures.              *)
(***************************************************************************)
views_imports == {"send_contact_confirmation_email", "send_partner_application_email"}

try_send(fn, kind) ==
    {[kind |-> kind,
      outcome |-> IF fn \in views_imports THEN "called" ELSE "NameError"]}

\* the status of the response that follows the try / except around a send
after_send_propagates(code, sends) ==
    IF \E m \in sends : m.outcome # "called" THEN 500 ELSE code

after_send(code, sends) == code

\* the entries of `mail` for the sends a request made about application a
MailFor(a, sends) ==
    {[kind |-> m.kind, app |-> a, outcome |-> m.outcome] : m \in sends}

(***************************************************************************)
(* The approve and reject endpoints, applied to the instance `self` that   *)
(* get_object() loaded and to the row as it is stored when save() runs.    *)
(***************************************************************************)
view_approve_from_under_review(row, self, user, t) ==
    IF self.status \notin {"pending", "under_review"}
    THEN [code |-> 400, row |-> row, wrote |-> FALSE, sends |-> {}]
    ELSE LET sends == try_send("send_partner_approval_email", "approval")
         IN  [code |-> after_send(200, sends),
              row |-> approve(row, self, user, t), wrote |-> TRUE,
              sends |-> sends]

view_approve(row, self, user, t) ==
    IF self.status # "pending"
    THEN [code |-> 400, row |-> row, wrote |-> FALSE, sends |-> {}]
    ELSE LET sends == try_send("send_partner_approval_email", "approval")
         IN  [code |-> after_send(200, sends),
              row |-> approve(row, self, user, t), wrote |-> TRUE,
              sends |-> sends]

view_reject(row, self, user, reason, t) ==
    IF falsy(data_get(reason))
    THEN [code |-> 400, row |-> row, wrote |-> FALSE, sends |-> {}]
    ELSE LET sends == try_send("send_partner_rejection_email", "rejection")
         IN  [code |-> after_send(200, sends),
              row |-> reject(row, self, user, data_get(reason), t),
              wrote |-> TRUE, sends |-> sends]

(***************************************************************************)
(* The two create views up to the serializer: the rate limiter is asked    *)
(* first (429 when it refuses), then the data is validated (400 when       *)
(* invalid, 201 when a record is saved).                                   *)
(***************************************************************************)
submit_validates_first(c, identifier, action, valid) ==
    LET r == check_rate_limit(c, identifier, action,
                              max_requests(action), window_hours(action))
    IN  [cache |-> r.cache, allowed |-> r.ret,
         code |-> IF ~valid THEN 400 ELSE IF r.ret THEN 201 ELSE 429]

submit_counts_valid_only(c, identifier, action, valid) ==
    LET r == check_rate_limit(c, identifier, action,
                              max_requests(action), window_hours(action))
    IN  IF ~r.ret THEN [cache |-> c, allowed |-> FALSE, code |-> 429]
        ELSE IF valid THEN [cache |-> r.cache, allowed |-> TRUE, code |-> 201]
        ELSE [cache |-> c, allowed |-> TRUE, code |-> 400]

submit(c, identifier, action, valid) ==
    LET r == check_rate_limit(c, identifier, action,
                              max_requests(action), window_hours(action))
    IN  [cache |-> r.cache, allowed |-> r.ret,
         code |-> IF ~r.ret THEN 429 ELSE IF valid THEN 201 ELSE 400]

\* a new ContactMessage row: status default 'new', the address of the client
\* (ContactMessageSerializer.create) and created_at = now (auto_now_add),
\* kept as the age of the row in seconds
NewContactMessage(ip) == [status |-> "new", ip_address |-> ip, age |-> 0]

\* the rows after `seconds` have passed; ages are followed up to the window
\* of the contact form
contacts_age(rows, seconds) ==
    [k \in DOMAIN rows |->
        [rows[k] EXCEPT !.age = Min(@ + seconds, WindowSeconds("contact_form"))]]

(***************************************************************************)
(* BulkPartnerUpdateSerializer: application_ids has min_length 1 and       *)
(* rejection_reason is an optional CharField that may not be blank.        *)
(***************************************************************************)
bulk_is_valid(ids, reason) == ids # {} /\ reason # ""

bulk_apply(row, kind, reason, user, t) ==
    IF kind = "approve" THEN approve(row, row, user, t)
    ELSE IF kind = "reject" THEN reject(row, row, user, data_get(reason), t)
    ELSE [row EXCEPT !.status = "under_review", !.reviewer = user,
                     !.reviewed_at = t]

(***************************************************************************)
(* PartnerApplicationUpdateSerializer: validate, then update.  update()    *)
(* calls timezone.now() when the status changes, and serializers.py does   *)
(* not import timezone: that branch raises NameError before anything is    *)
(* saved.                                                                  *)
(***************************************************************************)
update_is_valid(status, reason) ==
    ~(status = "rejected" /\ falsy(data_get(reason)))

serializer_update(instance, status, reason) ==
    IF status # Absent /\ status # instance.status
    THEN [code |-> 500, row |-> instance]
    ELSE [code |-> 200,
          row |-> [instance EXCEPT
                      !.rejection_reason = IF reason = Absent THEN @ ELSE reason]]

(***************************************************************************)
(* check_status: the outcome of the lookup.                                *)
(***************************************************************************)
check_status_case_sensitive(db, application_id, email) ==
    IF application_id = MissingId \/ falsy(email) THEN 400
    ELSE IF application_id = InvalidId THEN 500
    ELSE IF application_id \in DOMAIN db /\ db[application_id].email = email
         THEN 200
         ELSE 404

check_status(db, application_id, email) ==
    IF application_id = MissingId \/ falsy(email) THEN 400
    ELSE IF application_id = InvalidId THEN 500
    ELSE IF application_id \in DOMAIN db /\ iexact(db[application_id].email, email)
         THEN 200
         ELSE 404

Response(op, app, code, status, count) ==
    [op |-> op, app |-> app, code |-> code, status |-> status, count |-> count,
     sent |-> Absent]

IdleReviewer ==
    [pc |-> "idle", op |-> "", app |-> 0, self |-> NewApplication(""),
     reason |-> Absent, code |-> 0]

(***************************************************************************)
(* Initial state: an empty cache, no call made, no application stored.     *)
(***************************************************************************)
CallIds == 1..NumCalls
IdleCall == [pc |-> "idle", key |-> "", action |-> "", cur |-> 0, ret |-> FALSE]

Init ==
    /\ backend = "locmem"
    /\ cache = << >>
    /\ ret = "none"
    /\ watch \in {cache_key(a, "ip1") : a \in RateActions}
    /\ obs = ObsInit
    /\ calls = [p \in CallIds |-> IdleCall]
    /\ apps = << >>
    /\ now = 1
    /\ resp = Response("none", 0, 0, "", 0)
    /\ rv = [u \in Users |-> IdleReviewer]
    /\ contacts = << >>
    /\ mail = {}

\* the same, with the observer fixed on one key
InitApp == Init /\ watch = cache_key("contact_form", "ip1")

(***************************************************************************)
(* Sequential rate limiting: one whole check_rate_limit call per step, and *)
(* the passage of time.                                                    *)
(***************************************************************************)
CheckRateLimit(identifier, action) ==
    LET key == cache_key(action, identifier)
        r == check_rate_limit(cache, identifier, action,
                              max_requests(action), window_hours(action))
    IN  /\ cache' = r.cache
        /\ ret' = IF r.ret THEN "True" ELSE "False"
        /\ obs' = IF key = watch
                  THEN ObsCall(obs, key, key \in DOMAIN cache, r.ret)
                  ELSE obs
        /\ UNCHANGED <<backend, watch, calls, appVars>>

Tick ==
    LET seconds == TickHours * SecondsPerHour
        c2 == cache_expire(cache, seconds)
    IN  /\ cache' = c2
        /\ obs' = ObsTick(obs, watch, seconds, watch \in DOMAIN c2)
        /\ contacts' = contacts_age(contacts, seconds)
        /\ UNCHANGED <<backend, ret, watch, calls, apps, now, resp, rv, mail>>

NextRL ==
    \/ \E i \in Identifiers, a \in RateActions : CheckRateLimit(i, a)
    \/ Tick

SpecRL == Init /\ [][NextRL]_vars

(***************************************************************************)
(* Concurrent rate limiting: each call reads the counter (cache.get) in    *)
(* one step and compares, writes (cache.set) and returns in another.       *)
(***************************************************************************)
BeginCall(p, identifier, action) ==
    /\ calls[p].pc = "idle"
    /\ IF p = 1 THEN TRUE ELSE calls[p - 1].pc # "idle"
    /\ calls' = [calls EXCEPT ![p] =
                    [pc |-> "read", key |-> cache_key(action, identifier),
                     action |-> action,
                     cur |-> cache_get(cache, cache_key(action, identifier), 0),
                     ret |-> FALSE]]
    /\ UNCHANGED <<backend, cache, ret, watch, obs, appVars>>

FinishCall(p) ==
    /\ calls[p].pc = "read"
    /\ LET cl == calls[p]
           r == check_rate_limit_write(cache, cl.key, cl.cur,
                                       max_requests(cl.action),
                                       window_hours(cl.action))
       IN  /\ cache' = r.cache
           /\ calls' = [calls EXCEPT ![p] = [cl EXCEPT !.pc = "done", !.ret = r.ret]]
    /\ UNCHANGED <<backend, ret, watch, obs, appVars>>

NextRLConc ==
    \/ \E p \in CallIds, i \in Identifiers, a \in RateActions : BeginCall(p, i, a)
    \/ \E p \in CallIds : FinishCall(p)

SpecRLConc == Init /\ [][NextRLConc]_vars

(***************************************************************************)
(* The partner-application API, one whole request per step.                *)
(***************************************************************************)
\* PartnerApplicationViewSet.create: rate limit, validation, a new pending
\* row, the confirmation email
CreateApplication(identifier, email, data, valid) ==
    /\ LET r == submit(cache, identifier, "partner_application", valid)
           id == Cardinality(DOMAIN apps) + 1
           application == serializer_create(email, data)
       IN  /\ r.code = 201 => Cardinality(DOMAIN apps) < MaxApps
           /\ cache' = r.cache
           /\ ret' = IF r.allowed THEN "True" ELSE "False"
           /\ IF r.code = 201
              THEN /\ apps' = [x \in (DOMAIN apps) \cup {id} |->
                                  IF x = id THEN application ELSE apps[x]]
                   /\ mail' = MailFor(id, try_send("send_partner_application_email",
                                                    "application_received"))
                   /\ resp' = [Response("create", id, 201, application.status, 0)
                                  EXCEPT !.sent = data.status]
              ELSE /\ apps' = apps
                   /\ mail' = {}
                   /\ resp' = Response("create", 0, r.code, "", 0)
    /\ UNCHANGED <<now, rv, contacts, backend, watch, obs, calls>>

\* ContactMessageViewSet.create: rate limit, validation, a new row, the
\* confirmation email
SubmitContact(identifier, valid) ==
    /\ LET r == submit(cache, identifier, "contact_form", valid)
           id == Len(contacts) + 1
       IN  /\ r.code = 201 => Len(contacts) < MaxMessages
           /\ cache' = r.cache
           /\ ret' = IF r.allowed THEN "True" ELSE "False"
           /\ IF r.code = 201
              THEN /\ contacts' = Append(contacts, NewContactMessage(identifier))
                   /\ mail' = MailFor(id, try_send("send_contact_confirmation_email",
                                                    "contact_received"))
                   /\ resp' = Response("contact", id, 201, "new", 0)
              ELSE /\ contacts' = contacts
                   /\ mail' = {}
                   /\ resp' = Response("contact", 0, r.code, "", 0)
    /\ UNCHANGED <<apps, now, rv, backend, watch, obs, calls>>

ViewApprove(a, user) ==
    /\ IF a \notin DOMAIN apps
       THEN /\ resp' = Response("approve", a, 404, "", 0)
            /\ mail' = {}
            /\ UNCHANGED <<apps, now>>
       ELSE LET r == view_approve(apps[a], apps[a], user, now)
            IN  /\ r.wrote => now <= MaxClock
                /\ apps' = [apps EXCEPT ![a] = r.row]
                /\ now' = IF r.wrote THEN now + 1 ELSE now
                /\ resp' = Response("approve", a, r.code, "", 0)
                /\ mail' = MailFor(a, r.sends)
    /\ UNCHANGED <<rv, contacts, rlVars>>

ViewReject(a, user, reason) ==
    /\ IF a \notin DOMAIN apps
       THEN /\ resp' = Response("reject", a, 404, "", 0)
            /\ mail' = {}
            /\ UNCHANGED <<apps, now>>
       ELSE LET r == view_reject(apps[a], apps[a], user, reason, now)
            IN  /\ r.wrote => now <= MaxClock
                /\ apps' = [apps EXCEPT ![a] = r.row]
                /\ now' = IF r.wrote THEN now + 1 ELSE now
                /\ resp' = Response("reject", a, r.code, "", 0)
                /\ mail' = MailFor(a, r.sends)
    /\ UNCHANGED <<rv, contacts, rlVars>>

BulkUpdate(ids, kind, reason, user) ==
    /\ IF ~bulk_is_valid(ids, reason)
       THEN /\ resp' = Response("bulk_update", 0, 400, "", 0)
            /\ UNCHANGED <<apps, now>>
       ELSE LET targets == ids \cap DOMAIN apps
            IN  /\ targets # {} => now <= MaxClock
                /\ apps' = [x \in DOMAIN apps |->
                               IF x \in targets
                               THEN bulk_apply(apps[x], kind, reason, user, now)
                               ELSE apps[x]]
                /\ now' = IF targets # {} THEN now + 1 ELSE now
                /\ resp' = Response("bulk_update", 0, 200, "", Cardinality(targets))
    /\ mail' = {}
    /\ UNCHANGED <<rv, contacts, rlVars>>

\* PUT / PATCH through PartnerApplicationUpdateSerializer
Update(a, user, status, reason) ==
    /\ IF a \notin DOMAIN apps
       THEN /\ resp' = Response("update", a, 404, "", 0)
            /\ apps' = apps
       ELSE IF ~update_is_valid(status, reason)
       THEN /\ resp' = Response("update", a, 400, "", 0)
            /\ apps' = apps
       ELSE LET r == serializer_update(apps[a], status, reason)
            IN  /\ apps' = [apps EXCEPT ![a] = r.row]
                /\ resp' = Response("update", a, r.code, "", 0)
    /\ mail' = {}
    /\ UNCHANGED <<now, rv, contacts, rlVars>>

CheckStatus(application_id, email) ==
    /\ LET code == check_status(apps, application_id, email)
       IN  resp' = Response("check_status", application_id, code,
                            IF code = 200 THEN apps[application_id].status ELSE "",
                            0)
    /\ mail' = {}
    /\ UNCHANGED <<apps, now, rv, contacts, rlVars>>

\* the requests of one reviewer and of the public, one after the other
\* (two reviewers acting at once are SpecAppConc)
NextApp ==
    \/ \E e \in EmailInputs, d \in SuppliedInputs :
          CreateApplication("ip1", e, d, TRUE)
    \/ \E a \in AppIds : ViewApprove(a, "admin1")
    \/ \E a \in AppIds, r \in ReasonInputs : ViewReject(a, "admin1", r)
    \/ \E ids \in SUBSET AppIds, k \in {"approve", "reject", "review"},
          r \in ReasonInputs : BulkUpdate(ids, k, r, "admin1")
    \/ \E a \in AppIds, st \in UpdateStatusInputs,
          r \in ReasonInputs : Update(a, "admin1", st, r)
    \/ \E i \in IdInputs, e \in LookupEmails : CheckStatus(i, e)

SpecApp == InitApp /\ [][NextApp]_vars

(***************************************************************************)
(* Submissions: the two public create endpoints and the passage of time,   *)
(* under either cache configuration of settings.py (a cache that keeps     *)
(* what is set, or the DummyCache of production without REDIS_URL).        *)
(***************************************************************************)
InitSubmit ==
    /\ backend \in {"locmem", "dummy"}
    /\ cache = << >>
    /\ ret = "none"
    /\ watch = cache_key("contact_form", "ip1")
    /\ obs = ObsInit
    /\ calls = [p \in CallIds |-> IdleCall]
    /\ apps = << >>
    /\ now = 1
    /\ resp = Response("none", 0, 0, "", 0)
    /\ rv = [u \in Users |-> IdleReviewer]
    /\ contacts = << >>
    /\ mail = {}

NextSubmit ==
    \/ \E e \in EmailInputs, d \in SuppliedInputs, v \in BOOLEAN :
          CreateApplication("ip1", e, d, v)
    \/ \E v \in BOOLEAN : SubmitContact("ip1", v)
    \/ Tick

SpecSubmit == InitSubmit /\ [][NextSubmit]_vars

(***************************************************************************)
(* Concurrent reviewers: get_object() loads the instance in one step; the  *)
(* rest of the approve / reject endpoint (the check, the assignment and    *)
(* save(update_fields)) runs in a later step, on the loaded instance.      *)
(***************************************************************************)
GetObject(user, op, a, reason) ==
    /\ rv[user].pc = "idle"
    /\ a \in DOMAIN apps
    /\ rv' = [rv EXCEPT ![user] =
                 [pc |-> "loaded", op |-> op, app |-> a, self |-> apps[a],
                  reason |-> reason, code |-> 0]]
    /\ UNCHANGED <<apps, now, resp, contacts, mail, rlVars>>

Act(user) ==
    /\ rv[user].pc = "loaded"
    /\ LET q == rv[user]
           r == IF q.op = "approve"
                THEN view_approve(apps[q.app], q.self, user, now)
                ELSE view_reject(apps[q.app], q.self, user, q.reason, now)
       IN  /\ r.wrote => now <= MaxClock
           /\ apps' = [apps EXCEPT ![q.app] = r.row]
           /\ now' = IF r.wrote THEN now + 1 ELSE now
           /\ rv' = [rv EXCEPT ![user] = [q EXCEPT !.pc = "done", !.code = r.code]]
           /\ mail' = MailFor(q.app, r.sends)
    /\ UNCHANGED <<resp, contacts, rlVars>>

NextAppConc ==
    \/ \E e \in EmailInputs, d \in SuppliedInputs :
          CreateApplication("ip1", e, d, TRUE)
    \/ \E u \in Users, op \in {"approve", "reject"}, a \in AppIds,
          r \in ReasonInputs : GetObject(u, op, a, r)
    \/ \E u \in Users : Act(u)

SpecAppConc == InitApp /\ [][NextAppConc]_vars

(***************************************************************************)
(* Properties of the rate limiter.                                         *)
(***************************************************************************)
WatchMax == max_requests(KeyAction(watch))
WatchWindow == WindowSeconds(KeyAction(watch))

\* C1: counted from an absent counter and with no expiry in between, the
\* calls number 1..max_requests for a key are all admitted and the call
\* number max_requests+1 is denied (sequential calls).
C1_FirstMaxAdmittedNextDenied ==
    /\ obs.n \in 1..WatchMax => obs.last = "allow"
    /\ obs.n = WatchMax + 1 => obs.last = "deny"

C1_Witness == obs.n = WatchMax + 1 /\ obs.last = "deny"

\* C2: when more than max_requests concurrent calls for one key have all
\* returned inside one window, exactly max_requests of them returned true
\* and the others false.
AllCallsDone == \A p \in CallIds : calls[p].pc = "done"
CallsFor(k) == {p \in CallIds : calls[p].key = k}
AdmittedFor(k) == {p \in CallsFor(k) : calls[p].pc = "done" /\ calls[p].ret}
DeniedFor(k) == {p \in CallsFor(k) : calls[p].pc = "done" /\ ~calls[p].ret}

C2_NoOverAdmission ==
    \A k \in CacheKeys :
        (AllCallsDone /\ Cardinality(CallsFor(k)) > max_requests(KeyAction(k)))
            => /\ Cardinality(AdmittedFor(k)) = max_requests(KeyAction(k))
               /\ Cardinality(DeniedFor(k)) =
                      Cardinality(CallsFor(k)) - max_requests(KeyAction(k))

\* C7: a check_rate_limit call that finds the stored count >= max_requests
\* returns false and leaves the whole counter store (every count and every
\* expiry) as it was.
C7_DenialLeavesStoreUnchanged ==
    [][\A i \in Identifiers, a \in RateActions :
          (CheckRateLimit(i, a)
             /\ cache_get(cache, cache_key(a, i), 0) >= max_requests(a))
          => (ret' = "False" /\ cache' = cache)]_vars

C7_Witness ==
    /\ ret = "False"
    /\ obs.last = "deny"
    /\ obs.denyAge = 0
    /\ watch \in DOMAIN cache
    /\ cache[watch].value >= WatchMax
    /\ cache[watch].ttl < WatchWindow

\* C8 as stated: a call made a full window (or more) after some denial for
\* the same key is admitted.
C8_AdmittedAWindowAfterAnyDenial ==
    obs.dueEver => obs.last = "allow"

\* C8 amended: a call made a full window (or more) after a denial for the
\* same key is admitted, provided no call for the key was admitted between
\* that denial and the call.
C8_AdmittedAWindowAfterDenial ==
    obs.dueSince => obs.last = "allow"

C8_Witness == obs.dueSince /\ obs.last = "allow" /\ obs.n = 1

(***************************************************************************)
(* Properties of the partner-application lifecycle.                        *)
(***************************************************************************)
TerminalStatuses == {"approved", "rejected"}
NonTerminalStatuses == Statuses \ TerminalStatuses
Terminal(a) == a \in DOMAIN apps /\ apps[a].status \in TerminalStatuses

\* the transitions of the lifecycle table: start_review, approve / reject,
\* hold / request_info
LifecycleEdges ==
    ({"pending", "on_hold", "additional_info_required"} \X {"under_review"})
    \cup ({"pending", "under_review"} \X {"approved", "rejected"})
    \cup (NonTerminalStatuses \X {"on_hold", "additional_info_required"})

\* C3, as stated: once an application is approved or rejected no request on
\* any write path (approve, reject, bulk update, update) changes its status,
\* and an approve or reject request on it is answered with an error.
C3_TerminalStatusIsFinal ==
    [][/\ \A a \in DOMAIN apps :
             Terminal(a) => apps'[a].status = apps[a].status
       /\ \A a \in AppIds, u \in Users :
             (Terminal(a) /\ ViewApprove(a, u)) => resp'.code >= 400
       /\ \A a \in AppIds, u \in Users, r \in ReasonInputs :
             (Terminal(a) /\ ViewReject(a, u, r)) => resp'.code >= 400]_vars

\* C4, as stated: when an approve request and a reject request for the same
\* pending application run concurrently (each loaded the application while
\* it was pending), exactly one of the two succeeds and the final status is
\* the one of the request that succeeded.
C4_ExactlyOneOfApproveRejectSucceeds ==
    \A u1 \in Users, u2 \in Users :
        ( /\ u1 # u2
          /\ rv[u1].pc = "done" /\ rv[u2].pc = "done"
          /\ rv[u1].app = rv[u2].app
          /\ rv[u1].op = "approve" /\ rv[u2].op = "reject"
          /\ rv[u1].self.status = "pending" /\ rv[u2].self.status = "pending" )
        => /\ (rv[u1].code = 200) # (rv[u2].code = 200)
           /\ apps[rv[u1].app].status =
                 IF rv[u1].code = 200 THEN "approved" ELSE "rejected"

\* C5, as stated: when an approve or reject request on an application has
\* succeeded, the approve or reject request that follows it on the same
\* application fails and leaves the status as the first request set it.
C5_SecondDecisionFails ==
    [][\A a \in AppIds, u \in Users, r \in ReasonInputs :
          ( /\ resp.op \in {"approve", "reject"} /\ resp.app = a
            /\ resp.code = 200
            /\ (ViewApprove(a, u) \/ ViewReject(a, u, r)) )
          => (resp'.code >= 400 /\ apps'[a].status = apps[a].status)]_vars

\* C6, as stated: every change of an application's status is a transition
\* of the lifecycle table.
C6_OnlyLifecycleEdges ==
    [][\A a \in DOMAIN apps :
          apps'[a].status # apps[a].status
          => <<apps[a].status, apps'[a].status>> \in LifecycleEdges]_vars

\* C9, as stated: a rejection whose reason is empty or missing fails with a
\* validation error and changes no application, on the reject endpoint, on
\* the bulk update and on the update endpoint.
EmptyReasons == {r \in ReasonInputs : falsy(data_get(r))}
C9_RejectNeedsReason ==
    [][/\ \A a \in DOMAIN apps, u \in Users, r \in EmptyReasons :
             ViewReject(a, u, r) => (resp'.code = 400 /\ apps' = apps)
       /\ \A ids \in SUBSET AppIds, u \in Users, r \in EmptyReasons :
             (ids \cap DOMAIN apps # {} /\ BulkUpdate(ids, "reject", r, u))
             => (resp'.code = 400 /\ apps' = apps)
       /\ \A a \in DOMAIN apps, u \in Users, r \in EmptyReasons :
             Update(a, u, "rejected", r) => (resp'.code = 400 /\ apps' = apps)]_vars

\* C10, as stated: check_status called with an identifier and an email that
\* do not match one application (right identifier with another email, an
\* identifier of no application, a malformed identifier) always answers with
\* the same not-found response.
C10_NoMatchIsNotFound ==
    [][\A i \in IdInputs, e \in LookupEmails :
          ( /\ CheckStatus(i, e)
            /\ i # MissingId /\ ~falsy(e)
            /\ ~(i \in DOMAIN apps /\ iexact(apps[i].email, e)) )
          => (resp'.code = 404 /\ resp'.status = "")]_vars

\* C11, as stated: reviewed_at and approved_at are written at most once:
\* once one of them is non-null no request changes it.
C11_TimestampsWrittenOnce ==
    [][\A a \in DOMAIN apps :
          /\ apps[a].reviewed_at # NoTime
                => apps'[a].reviewed_at = apps[a].reviewed_at
          /\ apps[a].approved_at # NoTime
                => apps'[a].approved_at = apps[a].approved_at]_vars

\* C12, as stated: every request that moves an application into approved or
\* rejected calls the matching notification for that application, and a
\* notification is only called for an application whose new status is saved.
C12_DecisionIsNotified ==
    [][/\ \A a \in DOMAIN apps :
             (apps'[a].status \in TerminalStatuses
                /\ apps'[a].status # apps[a].status)
             => \E m \in mail' :
                   /\ m.app = a /\ m.outcome = "called"
                   /\ m.kind = IF apps'[a].status = "approved"
                               THEN "approval" ELSE "rejection"
       /\ \A m \in mail' :
             m.kind \in {"approval", "rejection"}
             => apps'[m.app].status = IF m.kind = "approval"
                                      THEN "approved" ELSE "rejected"]_vars

\* C13: when the notification of a successful approve or reject request
\* fails, the response is still the success response and the row is exactly
\* what the transition wrote (status, reviewer, timestamps, reason).
NotificationFailed(a, kind) ==
    \E m \in mail' : m.app = a /\ m.kind = kind /\ m.outcome # "called"

C13_FailedNotificationKeepsTransition ==
    [][\A a \in DOMAIN apps, u \in Users, r \in ReasonInputs :
          /\ (NotificationFailed(a, "approval") /\ ViewApprove(a, u))
             => /\ resp'.code = 200
                /\ apps'[a] = approve(apps[a], apps[a], u, now)
          /\ (NotificationFailed(a, "rejection") /\ ViewReject(a, u, r))
             => /\ resp'.code = 200
                /\ apps'[a] = reject(apps[a], apps[a], u, data_get(r), now)]_vars

C13_Witness ==
    /\ resp.op = "approve" /\ resp.code = 200
    /\ resp.app \in DOMAIN apps
    /\ apps[resp.app].status = "approved"
    /\ apps[resp.app].approved_at # NoTime
    /\ \E m \in mail : m.app = resp.app /\ m.kind = "approval"
                       /\ m.outcome = "NameError"

\* C14, as stated: a bulk approve or bulk reject leaves every application of
\* the batch that is already approved or rejected unchanged, and the number
\* it reports counts only the applications it moved.
C14_BulkSkipsTerminalItems ==
    [][\A ids \in SUBSET AppIds, k \in {"approve", "reject"},
          r \in ReasonInputs, u \in Users :
          (bulk_is_valid(ids, r) /\ BulkUpdate(ids, k, r, u))
          => /\ \A a \in ids \cap DOMAIN apps :
                   Terminal(a) => apps'[a] = apps[a]
             /\ resp'.count =
                   Cardinality({a \in ids \cap DOMAIN apps : ~Terminal(a)})]_vars

\* C15: a submission that the rate limiter refuses is answered 429 and
\* creates no record, whatever the data; a submission that it admits and
\* whose data is valid is answered 201 and creates exactly one record, in
\* its initial state.
Refused(identifier, action) ==
    ~check_rate_limit(cache, identifier, action,
                      max_requests(action), window_hours(action)).ret

C16_ApproveFromPendingOrUnderReview ==
    [][\A a \in DOMAIN apps, u \in Users :
          (apps[a].status \in {"pending", "under_review"} /\ ViewApprove(a, u))
          => /\ resp'.code = 200
             /\ apps'[a].status = "approved"
             /\ apps'[a].reviewer = u
             /\ apps'[a].approved_at # NoTime
             /\ apps'[a].reviewed_at # NoTime]_vars

\* C17, as stated: the reject endpoint called with a non-empty reason on an
\* application that is pending or under_review leaves it rejected with that
\* reason, the acting reviewer and reviewed_at set; and every later approve
\* attempt on a rejected application (approve endpoint, bulk approve) fails
\* and leaves it rejected.
C17_RejectThenApproveFails ==
    [][/\ \A a \in DOMAIN apps, u \in Users, r \in ReasonInputs \ EmptyReasons :
             (apps[a].status \in {"pending", "under_review"} /\ ViewReject(a, u, r))
             => /\ apps'[a].status = "rejected"
                /\ apps'[a].rejection_reason = r
                /\ apps'[a].reviewer = u
                /\ apps'[a].reviewed_at # NoTime
       /\ \A a \in DOMAIN apps :
             apps[a].status = "rejected"
             => /\ \A u \in Users :
                      ViewApprove(a, u)
                      => (resp'.code >= 400 /\ apps'[a] = apps[a])
                /\ \A ids \in SUBSET AppIds, r \in ReasonInputs, u \in Users :
                      (a \in ids /\ BulkUpdate(ids, "approve", r, u))
                      => (resp'.code >= 400 /\ apps'[a].status = "rejected")]_vars

\* C18, as stated: with a cache backend that does not retain values
\* (DummyCache) every submission is refused: check_rate_limit returns false,
\* the answer is 429 and no record is created.
C18_FailClosedWithoutStore ==
    [][backend = "dummy"
       => /\ \A i \in Identifiers, e \in EmailInputs, d \in SuppliedInputs,
                v \in BOOLEAN :
                CreateApplication(i, e, d, v)
                => (ret' = "False" /\ resp'.code = 429 /\ apps' = apps)
          /\ \A i \in Identifiers, v \in BOOLEAN :
                SubmitContact(i, v)
                => (ret' = "False" /\ resp'.code = 429 /\ contacts' = contacts)]_vars

C21_CreatedPendingAndUnreviewed ==
    [][\A a \in (DOMAIN apps') \ (DOMAIN apps) :
          /\ apps'[a].status = "pending"
          /\ apps'[a].reviewer = None
          /\ apps'[a].reviewed_at = NoTime
          /\ apps'[a].approved_at = NoTime]_vars

C21_Witness ==
    /\ resp.op = "create" /\ resp.code = 201 /\ resp.sent = "approved"
    /\ resp.app \in DOMAIN apps
    /\ apps[resp.app] = NewApplication(apps[resp.app].email)

\* C22, as stated: in every reachable state an application whose status is
\* rejected has a non-empty rejection_reason.
C22_RejectedHasReason ==
    \A a \in DOMAIN apps :
        apps[a].status = "rejected" => ~falsy(apps[a].rejection_reason)

\* C23: the count that check_rate_limit reads is never negative (every
\* stored count is at least 1 and an absent key reads as 0), and a call for
\* a key that is absent (never set, or expired) is admitted and stores the
\* count 1 with a full window, leaving the other keys as they were.
C23_AbsentKeyCountsAsZero ==
    [][\A i \in Identifiers, a \in RateActions :
          CheckRateLimit(i, a)
          => LET key == cache_key(a, i)
             IN  /\ cache_get(cache, key, 0) >= 0
                 /\ \A k \in DOMAIN cache : cache[k].value >= 1
                 /\ key \notin DOMAIN cache
                    => /\ ret' = "True"
                       /\ cache' = [k \in (DOMAIN cache) \cup {key} |->
                                      IF k = key
                                      THEN [value |-> 1,
                                            ttl |-> WindowSeconds(a)]
                                      ELSE cache[k]]]_vars

\* a call admitted with count 1 after the key's earlier counter, which had
\* reached the limit, expired
C23_Witness ==
    /\ ret = "True"
    /\ obs.n = 1 /\ obs.last = "allow" /\ obs.everAge >= WatchWindow
    /\ watch \in DOMAIN cache
    /\ cache[watch] = [value |-> 1, ttl |-> WatchWindow]

\* C24: the approve endpoint called on an application whose status is not
\* pending answers with an error, leaves every application as it was and
\* attempts no notification.
C24_ApproveRefusedUnlessPending ==
    [][\A a \in DOMAIN apps, u \in Users :
          (apps[a].status # "pending" /\ resp'.op = "approve"
             /\ ViewApprove(a, u))
          => /\ resp'.code >= 400
             /\ apps' = apps
             /\ now' = now
             /\ mail' = {}]_vars

C24_Witness ==
    /\ resp.op = "approve" /\ resp.code = 400
    /\ resp.app \in DOMAIN apps
    /\ apps[resp.app].status = "under_review"
    /\ apps[resp.app].approved_at = NoTime
    /\ mail = {}

\* C25: under every interleaving of concurrent check_rate_limit calls the
\* count stored for a key never exceeds max_requests, and never exceeds the
\* number of calls admitted for the key (lost updates only lower it).
C25_StoredCountWithinLimit ==
    \A k \in DOMAIN cache :
        /\ cache[k].value <= max_requests(KeyAction(k))
        /\ cache[k].value <= Cardinality(AdmittedFor(k))

\* more calls admitted for a key than its limit, and a stored count below
\* the number of admitted calls
C25_Witness ==
    \E k \in DOMAIN cache :
        /\ Cardinality(AdmittedFor(k)) > max_requests(KeyAction(k))
        /\ cache[k].value < Cardinality(AdmittedFor(k))
        /\ cache[k].value >= 2

\* C26: in sequential execution the admitted calls for a key that follow
\* each other less than window_duration apart number at most max_requests;
\* the admitted calls inside any interval shorter than window_duration are
\* such a run, so the interval holds at most max_requests of them.
C26_AtMostMaxAdmittedPerWindow ==
    obs.chain <= WatchMax

\* max_requests admitted calls spread over less than a window, the last of
\* them long after the first
C26_Witness ==
    /\ obs.chain = WatchMax /\ obs.last = "allow" /\ obs.sinceAdmit = 0
    /\ obs.sinceFirst >= 2 * TickHours * SecondsPerHour

\* C27: a call made once window_duration has elapsed since the last
\* admitted call for the key is admitted, however many calls for the key
\* were denied in between (denied calls do not extend the expiry).
C27_AdmittedAWindowAfterLastAdmission ==
    obs.dueAdmit # "no" => obs.last = "allow"

C27_Witness ==
    /\ obs.dueAdmit = "after_denials" /\ obs.last = "allow"
    /\ obs.n = 1 /\ ~obs.dueSince
    /\ watch \in DOMAIN cache /\ cache[watch].value = 1

\* C28: a check_rate_limit call for (action, identifier), as the two create
\* views make it, changes neither the count nor the expiry of the counter of
\* any other (action, identifier), and whether it is admitted depends on its
\* own counter only: contact-form calls leave every partner-application
\* counter as it was, and calls from one address leave the counters of the
\* other addresses as they were.
KeyState(identifier, action) ==
    IF cache_key(action, identifier) \in DOMAIN cache
    THEN cache[cache_key(action, identifier)]
    ELSE [value |-> 0, ttl |-> 0]

OthersUntouched(identifier, action) ==
    \A j \in Identifiers, b \in RateActions :
        (j # identifier \/ b # action) => KeyState(j, b)' = KeyState(j, b)

C28_KeysAreIndependent ==
    [][\A i \in Identifiers, a \in RateActions :
          CheckRateLimit(i, a)
          => /\ OthersUntouched(i, a)
             /\ ret' = "True" <=> KeyState(i, a).value < max_requests(a)]_vars

\* a contact-form call admitted for an address whose partner-application
\* quota is used up and part of its window gone, while another address
\* has used one unit of its own
C28_Witness ==
    /\ ret = "True"
    /\ KeyState("ip1", "contact_form") =
          [value |-> 1, ttl |-> WindowSeconds("contact_form")]
    /\ KeyState("ip1", "partner_application").value =
          max_requests("partner_application")
    /\ KeyState("ip1", "partner_application").ttl <
          WindowSeconds("partner_application")
    /\ KeyState("ip2", "partner_application").value = 1

(***************************************************************************)
(* Submissions with a cache that retains what is set (Redis, LocMem).      *)
(***************************************************************************)
InitSubmitStore == InitSubmit /\ backend = "locmem"

SpecSubmitStore == InitSubmitStore /\ [][NextSubmit]_vars

\* the contact messages created from an address less than a window ago
RecentContacts(ip) ==
    {k \in DOMAIN contacts :
        /\ contacts[k].ip_address = ip
        /\ contacts[k].age < WindowSeconds("contact_form")}

\* C29: a submission that the limiter admits adds one to the counter of its
\* key and restarts its window whether its data is valid or not, and the
\* contact messages created from one address within less than a window
\* never number more than max_requests.
C29_AdmittedSubmissionConsumesQuota ==
    [][/\ \A e \in EmailInputs, d \in SuppliedInputs, v \in BOOLEAN :
             (resp'.op = "create" /\ CreateApplication("ip1", e, d, v)
                /\ ~Refused("ip1", "partner_application"))
             => KeyState("ip1", "partner_application")' =
                   [value |-> KeyState("ip1", "partner_application").value + 1,
                    ttl |-> WindowSeconds("partner_application")]
       /\ \A v \in BOOLEAN :
             (resp'.op = "contact" /\ SubmitContact("ip1", v)
                /\ ~Refused("ip1", "contact_form"))
             => KeyState("ip1", "contact_form")' =
                   [value |-> KeyState("ip1", "contact_form").value + 1,
                    ttl |-> WindowSeconds("contact_form")]
       /\ \A i \in Identifiers :
             Cardinality(RecentContacts(i))' <= max_requests("contact_form")]_vars

\* the quota of the contact form used up by invalid submissions alone: the
\* counter is at the limit, the last submission was refused, nothing stored
C29_Witness ==
    /\ resp.op = "contact" /\ resp.code = 429
    /\ KeyState("ip1", "contact_form").value = max_requests("contact_form")
    /\ contacts = << >>

\* C30: in every state reached through create, approve, reject, bulk update
\* and update requests, an application whose status is approved has
\* approved_at and reviewed_at set and a reviewer.
C30_ApprovedIsStamped ==
    \A a \in DOMAIN apps :
        apps[a].status = "approved"
        => /\ apps[a].approved_at # NoTime
           /\ apps[a].reviewed_at # NoTime
           /\ apps[a].reviewer \in Users

\* an application approved by a bulk update after it had been rejected
C30_Witness ==
    /\ resp.op = "bulk_update" /\ resp.code = 200
    /\ \E a \in DOMAIN apps :
          /\ apps[a].status = "approved"
          /\ apps[a].rejection_reason = "incomplete docs"
          /\ apps[a].approved_at = apps[a].reviewed_at
          /\ apps[a].approved_at > 1

====
